---- MODULE Spec2Model ----
(***************************************************************************)
(* Raydium CLMM liquidity bot: the control loop (LiquidityBot), the        *)
(* monitors (PoolMonitor), the position lifecycle (PositionManager) and    *)
(* the parts of RaydiumService / SolanaService / DiscordService they use.  *)
(*                                                                         *)
(* Every async call of the bot is a task.  A task's pc names the await it  *)
(* is suspended at; one action is the code that runs from the resumption   *)
(* of that await to the next suspension.  The chain (pool price, open      *)
(* positions) is state; Gateway reads and transactions may fail.           *)
(*                                                                         *)
(* Prices are integers.  A band is kept scaled by 100 (lo = price*(100-r), *)
(* hi = price*(100+r)) so that the percentages are exact.                  *)
(***************************************************************************)
EXTENDS Integers, Sequences, FiniteSets, TLC

\* ---------------------------------------------------------------- bounds
MaxTasks == 2
MaxPositionId == 2
MaxTimers == 2
MaxPreExisting == 2

\* ------------------------------------------------------ program constants
priceRangePercent == 5
rebalanceThresholdPercent == 1
minAmount == 1000
\* Config.solana.minSolBalance, in hundredths of a SOL
minSolBalance == 5

Null == 0
NoAccount == 0 - 1
\* A position count of a listing that has not been made
NotListed == 0 - 1
\* A native balance that has not been read
NotRead == 0 - 1

Tasks == 1..MaxTasks
Prices == {100, 101, 105, 110}
\* The prices the pool takes while the control loop runs
LoopPrices == {100, 110}
BalanceValues == {NoAccount, 999, 1000, 1010}
\* What the wallet's two pool-token accounts hold when the control loop reads them
LoopBalances == {<<NoAccount, NoAccount>>, <<1000, 1010>>}
\* The wallets the control loop reads: no token account, one of an unrelated
\* mint only, both pool tokens
LoopWallets == {<<NoAccount, NoAccount, FALSE>>, <<NoAccount, NoAccount, TRUE>>,
                <<1000, 1010, FALSE>>}
\* The wallet's native balance, in hundredths of a SOL
SolValues == {4, 5}

VARIABLES
    isRunning,          \* LiquidityBot.isRunning
    cronJob,            \* LiquidityBot.cronJob is not null
    timers,             \* number of armed (scheduled, not stopped) cron tasks
    poolInfoPrice,      \* price held in RaydiumService.poolInfo, Null before the first fetch
    lastCheckedPrice,   \* PoolMonitor.lastCheckedPrice, Null before the first check
    chainPrice,         \* the pool's price at the Gateway
    chainPositions,     \* the wallet's open positions of the pool at the Gateway
    nextId,             \* identifier of the next position opened on chain
    sinkUp,             \* the Notification Sink accepts what is sent to it
    task                \* the async calls in progress

vars == <<isRunning, cronJob, timers, poolInfoPrice, lastCheckedPrice,
          chainPrice, chainPositions, nextId, sinkUp, task>>

botVars == <<isRunning, cronJob, timers>>
chainVars == <<chainPrice, chainPositions, nextId>>

\* ------------------------------------------------------- pure operators

Abs(x) == IF x < 0 THEN 0 - x ELSE x

\* (variant: the band is the price plus and minus an absolute amount)
calculatePriceRangeAbsolute(currentPrice) ==
    [lowerPrice |-> currentPrice * 100 - priceRangePercent,
     upperPrice |-> currentPrice * 100 + priceRangePercent]

\* RaydiumService.calculatePriceRange (scaled by 100)
calculatePriceRange(currentPrice) ==
    [lowerPrice |-> currentPrice * (100 - priceRangePercent),
     upperPrice |-> currentPrice * (100 + priceRangePercent)]

\* (variant: the upper bound is exclusive)
inRangeExclusive(position, currentPrice) ==
    currentPrice * 100 >= position.lowerPrice /\ currentPrice * 100 < position.upperPrice

\* RaydiumService.getPositions: inRange of one position at the current price
inRange(position, currentPrice) ==
    currentPrice * 100 >= position.lowerPrice /\ currentPrice * 100 <= position.upperPrice

\* (variant: a change equal to the threshold counts as significant)
significantChangeInclusive(currentPrice, last) ==
    IF last = Null THEN FALSE
    ELSE Abs(currentPrice - last) * 100 >= rebalanceThresholdPercent * last

\* PoolMonitor.checkPrice: percentChange > priceChangeThreshold
significantChange(currentPrice, last) ==
    IF last = Null THEN FALSE
    ELSE Abs(currentPrice - last) * 100 > rebalanceThresholdPercent * last

\* (variant: the stored price moves only on a significant change)
updateIfSignificant(currentPrice, sig, last) ==
    IF sig \/ last = Null THEN currentPrice ELSE last

\* PoolMonitor.checkPrice: the value stored in lastCheckedPrice after the comparison
updateLastCheckedPrice(currentPrice, sig, last) == currentPrice

\* (variant: a significant price change alone does not trigger a rebalance)
shouldRebalanceOnPositions(sig, outOfRangeCount, positionsCount) ==
    outOfRangeCount > 0 \/ positionsCount = 0

\* LiquidityBot.runIteration, step 4
shouldRebalance(sig, outOfRangeCount, positionsCount) ==
    sig \/ outOfRangeCount > 0 \/ positionsCount = 0

\* The orders in which Clmm.getPositionsByOwner can list the positions S: the
\* code keeps the order of the answer and nothing sorts it
Listings(S) ==
    {q \in [1..Cardinality(S) -> S] : \A i, j \in 1..Cardinality(S) : q[i] = q[j] => i = j}

\* The ids of a sequence of positions, in its order
IdSeq(q) == [i \in 1..Len(q) |-> q[i].id]

\* RaydiumService.getPositions on the answer `listing`: the pool's positions in
\* the listed order, classified at the cached price; `out` is the caller's
\* filter on !inRange, which keeps that order
getPositions(listing, cachedPrice) ==
    [all |-> IdSeq(listing),
     out |-> IdSeq(SelectSeq(listing, LAMBDA p : ~inRange(p, cachedPrice)))]

\* (variant: only the first token's balance is compared with the floor)
sufficientBalanceA(a, b) ==
    /\ a # NoAccount
    /\ b # NoAccount
    /\ ~(a < minAmount)

\* PositionManager.createOptimalPosition: both balances present and at least minAmount
sufficientBalances(a, b) ==
    /\ a # NoAccount
    /\ b # NoAccount
    /\ ~(a < minAmount \/ b < minAmount)

\* (variant: the whole balance is offered)
amountAll(b) == b

\* PositionManager.createOptimalPosition: 95% of the raw balance, truncated
amount95(b) == (b * 95) \div 100

\* (variant: a balance equal to the minimum is reported as low)
atOrBelowMinimum(solBalance) == solBalance <= minSolBalance

\* PoolMonitor.checkWalletBalances: solBalance < Config.solana.minSolBalance
belowMinimum(solBalance) == solBalance < minSolBalance


\* ------------------------------------------------------ catch handlers

\* (variant: the catch of runIteration rethrows after notifying)
iterationCatchRethrows == "threw"

\* LiquidityBot.runIteration, catch: notify, do not rethrow
iterationCatch == "returned"

\* LiquidityBot.start, catch: notify, do not rethrow
startCatch == "returned"

\* (variant: the catch of rebalanceIfNeeded rethrows after notifying)
rebalanceCatchRethrows == "threw"

\* PositionManager.rebalanceIfNeeded, catch: notify, return false
rebalanceCatch == "false"

\* PositionManager.createOptimalPosition, catch: notify, return null
createCatch == Null

\* PositionManager.withdrawOutOfRangePositions, catch: notify, return []
withdrawCatch(signatures) == << >>

\* (variant: rebalanceIfNeeded reports success whenever it attempted a create)
rebalanceReturnsTrue(signature) == "true"

\* PositionManager.rebalanceIfNeeded: return !!signature
rebalanceReturn(signature) == IF signature # Null THEN "true" ELSE "false"

\* ---------------------------------------------------------------- tasks

\* A call that has not been made.  kind: "start" (LiquidityBot.start and the
\* iteration it runs), "tick" (the cron callback) or "call" (a direct call of
\* positionManager.rebalanceIfNeeded).  The fields after pc and
\* kind are the call's locals and its record of what it did: note is the
\* lifecycle notification it sent, prev the stored price that checkPrice
\* compared cur with, sol the native balance that checkWalletBalances read
\* and low the number of "Low SOL Balance" notifications it sent, ev the transaction events of its rebalance
\* in order ("close"/"open": handed to signAndSendTransaction, "closed"/
\* "opened": confirmed, "settle": the settle delay elapsed), rbCnt/rbOor and
\* coCnt the position counts that rebalanceIfNeeded and createOptimalPosition
\* listed.  kind "stop" is a call of LiquidityBot.stop, kind "status" a status
\* query of the host.  escaped: the call ended with an exception that came
\* out of sendNotification and reached its caller.  At pc "sink" the call
\* awaits the answer of the Notification Sink to a notification it has sent:
\* after is the call as it goes on once the sends are answered, due the number
\* of error notifications that the catch blocks further out send before that,
\* and frame the function that sends the last of them.
NoTask == [pc |-> "none"]

IdleTask ==
    [pc |-> "idle", kind |-> "none",
     cur |-> Null, prev |-> Null, sig |-> FALSE, cnt |-> 0, oor |-> 0,
     ran |-> 0, failedAt |-> 0, errs |-> 0, sol |-> NotRead, low |-> 0,
     iter |-> "none", start |-> "none", initFailed |-> FALSE, note |-> "none",
     rb |-> "none", rbFailed |-> FALSE, openOk |-> FALSE,
     rbCnt |-> NotListed, rbOor |-> NotListed, coCnt |-> NotListed, ev |-> << >>,
     queue |-> << >>, signatures |-> << >>, wdRet |-> << >>, wdFailed |-> FALSE,
     tokA |-> NoAccount, tokB |-> NoAccount,
     lo |-> 0, hi |-> 0, amtA |-> 0, amtB |-> 0, escaped |-> FALSE,
     after |-> NoTask, due |-> 0, frame |-> "none"]

\* The awaits below runIteration other than those of webhook.send
IterationPcs == {"it_price", "it_positions", "it_balances", "it_tokens", "it_low",
                 "rb_fetch", "rb_positions", "co_tokens", "co_positions", "co_pool",
                 "co_build", "co_hash", "co_tx", "wd_positions", "wd_build", "wd_hash",
                 "wd_tx", "settle"}
\* The functions below runIteration that send a notification
IterationFrames == {"runIteration", "rebalanceIfNeeded", "createOptimalPosition",
                    "createPosition", "withdrawOutOfRangePositions", "withdrawPosition"}
\* runIteration is executing in call r (made by start() or by the cron
\* callback): it is suspended at one of its awaits, a notification send included
InIteration(r) ==
    /\ r.kind \in {"start", "tick"}
    /\ \/ r.pc \in IterationPcs
       \/ r.pc = "sink" /\ r.frame \in IterationFrames
\* The awaits inside SolanaService.signAndSendTransaction
TxPcs == {"co_hash", "co_tx", "wd_hash", "wd_tx"}

\* The lowest idle slot takes the next call
Free(t) ==
    /\ task[t].pc = "idle"
    /\ \A u \in Tasks : u < t => task[u].pc # "idle"

\* A finished call is handed to its caller before anything else runs
NoDone == \A t \in Tasks : task[t].pc # "done"

\* The monitors' results are dead once runIteration has decided to rebalance
Forget(r) == [r EXCEPT !.cur = Null, !.prev = Null, !.sig = FALSE, !.cnt = 0, !.oor = 0,
                        !.sol = NotRead, !.low = 0]

\* Monitor step `step` of the iteration has thrown: the results of the steps
\* before it are dead
Failed(r, step) ==
    [r EXCEPT !.ran = step, !.cur = Null, !.prev = Null, !.sig = FALSE, !.cnt = 0, !.oor = 0]

StartsInProgress == Cardinality({t \in Tasks : task[t].pc \in {"s_init", "s_notify"}})

\* runIteration returns normally; start() (when it ran the iteration) returns to its host
IterDone(r) ==
    [r EXCEPT !.pc = "done", !.iter = "returned",
              !.start = IF r.kind = "start" THEN "returned" ELSE "none"]

\* (variant: every monitor step has its own catch and the iteration goes on)
IterFailContinues(r, step) ==
    [r EXCEPT !.failedAt = step, !.errs = @ + 1,
              !.pc = IF step = 1 THEN "it_positions"
                     ELSE IF step = 2 THEN "it_balances" ELSE "done",
              !.iter = IF step < 3 THEN "none" ELSE "returned",
              !.start = IF step = 3 /\ r.kind = "start" THEN "returned" ELSE "none"]

\* The status handler's catch: the error is logged and answered with a 500,
\* nothing is notified
StatusFail(r, step) == [r EXCEPT !.pc = "done", !.failedAt = step]

\* runIteration's catch: one error notification; what reaches the caller is
\* iterationCatch.  A throw out of runIteration is caught again by start()
\* (one more notification) or by the cron callback (logged only).
IterFail(r, step) ==
    IF r.kind = "status" THEN StatusFail(r, step) ELSE
    [r EXCEPT !.pc = "done", !.failedAt = step,
              !.errs = @ + 1 + (IF iterationCatch = "threw" /\ r.kind = "start" THEN 1 ELSE 0),
              !.iter = iterationCatch,
              !.start = IF r.kind # "start" THEN "none"
                        ELSE IF iterationCatch = "threw" THEN startCatch ELSE "returned"]

\* rebalanceIfNeeded hands `result` to its caller: runIteration logs it and
\* completes; a direct caller has it
RebalanceEnd(r, result) ==
    IF r.kind = "call" THEN [r EXCEPT !.pc = "done", !.rb = result]
    ELSE IF result = "threw"
    THEN IterFail([r EXCEPT !.rb = result], 4)
    ELSE IterDone([r EXCEPT !.rb = result])

\* rebalanceIfNeeded's own catch (a throw that reaches it)
RebalanceThrow(r) ==
    RebalanceEnd([r EXCEPT !.errs = @ + 1, !.rbFailed = TRUE], rebalanceCatch)

\* createOptimalPosition's catch, `n` notifications having been sent below it;
\* its result goes through rebalanceIfNeeded's return !!signature
CreateThrow(r, n) ==
    RebalanceEnd([r EXCEPT !.errs = @ + n + 1, !.rbFailed = TRUE],
                 rebalanceReturn(createCatch))

\* (variant: the create follows the withdrawals without the settle delay)
WithdrawReturnNoSettle(r, ret) ==
    IF Len(ret) > 0
    THEN [r EXCEPT !.wdRet = ret, !.pc = "co_tokens"]
    ELSE RebalanceEnd([r EXCEPT !.wdRet = ret], "false")

\* withdrawOutOfRangePositions returns `ret` to rebalanceIfNeeded
WithdrawReturn(r, ret) ==
    IF Len(ret) > 0
    THEN [r EXCEPT !.wdRet = ret, !.pc = "settle"]
    ELSE RebalanceEnd([r EXCEPT !.wdRet = ret], "false")

\* (variant: a failed withdrawal is notified and the loop goes on to the next position)
WithdrawThrowContinues(r, n) ==
    IF Len(r.queue) > 1
    THEN [r EXCEPT !.errs = @ + n, !.wdFailed = TRUE, !.queue = Tail(@), !.pc = "wd_build"]
    ELSE WithdrawReturn([r EXCEPT !.errs = @ + n + 1, !.rbFailed = TRUE, !.wdFailed = TRUE],
                        withdrawCatch(r.signatures))

\* withdrawOutOfRangePositions's catch, `n` notifications having been sent below it
WithdrawThrow(r, n) ==
    WithdrawReturn([r EXCEPT !.errs = @ + n + 1, !.rbFailed = TRUE, !.wdFailed = TRUE],
                   withdrawCatch(r.signatures))

\* (variant: sendNotification has no catch, a failed send reaches the caller)
sendNotificationThrows(delivered) == IF delivered THEN "returned" ELSE "threw"

\* DiscordService.sendNotification: the send is inside a try whose catch only
\* logs, so the call returns whether or not the sink took the message
sendNotification(delivered) == "returned"

\* The call `now` has sent a notification and awaits webhook.send; n: this
\* one and the error notifications of the enclosing catch blocks that follow
\* it; frame: the function that sends the last of them; after: the call once
\* they are answered
Suspended(now, after, n, frame) ==
    [now EXCEPT !.pc = "sink", !.after = after, !.due = n - 1, !.frame = frame]

\* A step of the call `now` whose catch blocks, on the way to `after`, send
\* error notifications (after.errs - now.errs of them, one per catch, the
\* last by `frame`): the first is sent in the step, each of the others when
\* the one before it has been answered
Await(now, after, frame) ==
    LET n == after.errs - now.errs
    IN IF n = 0 THEN after
       ELSE [Suspended(now, after, n, frame) EXCEPT !.errs = now.errs + 1]

\* An exception comes out of the send that call r awaits, the last of its
\* chain.  It goes to the catch block that encloses the sender: out of the
\* body of createPosition or withdrawPosition ("Position Created", "Position
\* Withdrawn") to their own catch and the one of the position manager
\* function that called them, out of the catch of createOptimalPosition or
\* withdrawOutOfRangePositions to the catch of rebalanceIfNeeded, out of that
\* one to runIteration's catch (or to the host of a direct call), out of
\* runIteration's catch to start()'s catch (or to the cron callback, which
\* logs it), and out of start()'s catch or out of stop() to the host.
Thrown(r) ==
    LET c == [r EXCEPT !.after = NoTask, !.due = 0, !.frame = "none",
                       !.rbFailed = r.after.rbFailed, !.wdFailed = r.after.wdFailed]
        thrown == RebalanceEnd(c, "threw")
    IN CASE r.frame = "createPosition" ->
                Await(c, CreateThrow(c, 1), "createOptimalPosition")
         [] r.frame = "withdrawPosition" ->
                Await(c, WithdrawThrow(c, 1), "withdrawOutOfRangePositions")
         [] r.frame \in {"createOptimalPosition", "withdrawOutOfRangePositions"} ->
                Await(c, RebalanceThrow(c), "rebalanceIfNeeded")
         [] r.frame = "rebalanceIfNeeded" ->
                IF r.kind = "call" THEN [thrown EXCEPT !.escaped = TRUE]
                ELSE Await(c, thrown, "runIteration")
         [] r.frame = "runIteration" ->
                IF r.kind = "start"
                THEN Await(c, [r.after EXCEPT !.iter = "threw", !.errs = @ + 1,
                                              !.start = startCatch], "start")
                ELSE [r.after EXCEPT !.iter = "threw", !.escaped = TRUE]
         [] r.frame = "start" -> [r.after EXCEPT !.start = "threw", !.escaped = TRUE]
         [] OTHER -> [r.after EXCEPT !.escaped = TRUE]

\* ------------------------------------------------------- the control loop

Init ==
    /\ isRunning = FALSE
    /\ cronJob = FALSE
    /\ timers = 0
    /\ poolInfoPrice = Null
    /\ lastCheckedPrice = Null
    /\ chainPrice = 100
    /\ chainPositions = {}
    /\ nextId = 1
    /\ sinkUp = TRUE
    /\ task = [t \in Tasks |-> IdleTask]

\* The pool's price moves at the Gateway
EnvPriceMove(p) ==
    /\ UNCHANGED sinkUp
    /\ NoDone
    /\ p # chainPrice
    /\ chainPrice' = p
    /\ UNCHANGED <<botVars, poolInfoPrice, lastCheckedPrice, chainPositions, nextId, task>>

\* webhook.send of the notification that call t awaits settles (delivered:
\* the sink took it).  The next catch block on the way out sends its own
\* error notification (it is the one that a failed send of a rethrowing catch
\* block reaches as well), or the call goes on from where the notification
\* was sent.
SinkAnswers(t, delivered) ==
    /\ UNCHANGED sinkUp
    /\ NoDone
    /\ task[t].pc = "sink"
    /\ task' = [task EXCEPT ![t] =
          IF @.due > 0 THEN [@ EXCEPT !.errs = @ + 1, !.due = @ - 1]
          ELSE IF sendNotification(delivered) = "threw" THEN Thrown(@)
          ELSE @.after]
    /\ UNCHANGED <<botVars, poolInfoPrice, lastCheckedPrice, chainVars>>

\* (variant: start() does not look at isRunning)
StartCallUnguarded(t) ==
    /\ UNCHANGED sinkUp
    /\ NoDone
    /\ Free(t)
    /\ timers + StartsInProgress < MaxTimers
    /\ task' = [task EXCEPT ![t] = [IdleTask EXCEPT !.pc = "s_init", !.kind = "start"]]
    /\ UNCHANGED <<botVars, poolInfoPrice, lastCheckedPrice, chainVars>>

\* LiquidityBot.start up to its first await: a no-op when already running,
\* otherwise initialize() -> raydiumService.initialize() -> fetchPoolInfo()
StartCall(t) ==
    /\ UNCHANGED sinkUp
    /\ NoDone
    /\ Free(t)
    /\ IF isRunning
       THEN task' = [task EXCEPT ![t] =
                       [IdleTask EXCEPT !.pc = "done", !.kind = "start", !.start = "returned"]]
       ELSE /\ timers + StartsInProgress < MaxTimers
            /\ task' = [task EXCEPT ![t] = [IdleTask EXCEPT !.pc = "s_init", !.kind = "start"]]
    /\ UNCHANGED <<botVars, poolInfoPrice, lastCheckedPrice, chainVars>>

\* (variant: "Bot Started" is sent before the pool is loaded)
StartInitNotifiesFirst(t, ok) ==
    /\ UNCHANGED sinkUp
    /\ NoDone
    /\ task[t].pc = "s_init"
    /\ IF ok
       THEN /\ poolInfoPrice' = chainPrice
            /\ task' = [task EXCEPT ![t] = [@ EXCEPT !.pc = "s_notify", !.note = "Bot Started"]]
       ELSE /\ UNCHANGED poolInfoPrice
            /\ task' = [task EXCEPT ![t] =
                  Await(@, [@ EXCEPT !.pc = "done", !.initFailed = TRUE,
                                     !.note = "Bot Started",
                                     !.errs = @ + 2, !.start = startCatch], "start")]
    /\ UNCHANGED <<botVars, lastCheckedPrice, chainVars>>

\* fetchPoolInfo resolves.  ok: poolInfo is replaced and "Bot Started" is
\* sent, the call awaits the sink.  Failure: the catch of initialize() sends
\* an error notification and rethrows, the catch of start() sends another
\* and start() returns.
StartInit(t, ok) ==
    /\ UNCHANGED sinkUp
    /\ NoDone
    /\ task[t].pc = "s_init"
    /\ IF ok
       THEN /\ poolInfoPrice' = chainPrice
            /\ task' = [task EXCEPT ![t] = [@ EXCEPT !.pc = "s_notify", !.note = "Bot Started"]]
       ELSE /\ UNCHANGED poolInfoPrice
            /\ task' = [task EXCEPT ![t] =
                  Await(@, [@ EXCEPT !.pc = "done", !.initFailed = TRUE,
                                     !.errs = @ + 2, !.start = startCatch], "start")]
    /\ UNCHANGED <<botVars, lastCheckedPrice, chainVars>>

\* (variant: start() returns once the cron task is scheduled)
StartNotifiedNoIteration(t, delivered) ==
    /\ UNCHANGED sinkUp
    /\ NoDone
    /\ task[t].pc = "s_notify"
    /\ timers' = timers + 1
    /\ cronJob' = TRUE
    /\ isRunning' = TRUE
    /\ task' = [task EXCEPT ![t] = [@ EXCEPT !.pc = "done", !.start = "returned"]]
    /\ UNCHANGED <<poolInfoPrice, lastCheckedPrice, chainVars>>

\* The send of "Bot Started" settles (delivered: the sink took it):
\* initialize() returns, the cron task is scheduled, isRunning is set and the
\* initial iteration begins with checkPrice.  An exception out of the send
\* goes to the catch of initialize() and then to the catch of start().
StartNotified(t, delivered) ==
    /\ UNCHANGED sinkUp
    /\ NoDone
    /\ task[t].pc = "s_notify"
    /\ IF sendNotification(delivered) = "threw"
       THEN /\ UNCHANGED botVars
            /\ task' = [task EXCEPT ![t] =
                  Await(@, [@ EXCEPT !.pc = "done", !.errs = @ + 2, !.start = startCatch],
                        "start")]
       ELSE /\ timers' = timers + 1
            /\ cronJob' = TRUE
            /\ isRunning' = TRUE
            /\ task' = [task EXCEPT ![t].pc = "it_price"]
    /\ UNCHANGED <<poolInfoPrice, lastCheckedPrice, chainVars>>

\* LiquidityBot.stop: a no-op when not running, otherwise the cron task is
\* stopped, the bot is marked stopped, "Bot Stopped" is sent and the call
\* awaits the sink
Stop(t) ==
    /\ UNCHANGED sinkUp
    /\ NoDone
    /\ Free(t)
    /\ IF ~isRunning \/ ~cronJob
       THEN /\ UNCHANGED botVars
            /\ task' = [task EXCEPT ![t] = [IdleTask EXCEPT !.pc = "done", !.kind = "stop"]]
       ELSE /\ timers' = timers - 1
            /\ cronJob' = FALSE
            /\ isRunning' = FALSE
            /\ task' = [task EXCEPT ![t] =
                  LET sent == [IdleTask EXCEPT !.kind = "stop", !.note = "Bot Stopped"]
                  IN Suspended(sent, [sent EXCEPT !.pc = "done"], 1, "stop")]
    /\ UNCHANGED <<poolInfoPrice, lastCheckedPrice, chainVars>>

\* An armed cron task fires: its callback calls runIteration, which awaits
\* the isPoolInitialized() of checkPrice
Tick(t) ==
    /\ UNCHANGED sinkUp
    /\ NoDone
    /\ timers > 0
    /\ Free(t)
    /\ task' = [task EXCEPT ![t] = [IdleTask EXCEPT !.pc = "it_price", !.kind = "tick"]]
    /\ UNCHANGED <<botVars, poolInfoPrice, lastCheckedPrice, chainVars>>

\* The price a service call sees: the cached pool info, fetched first when absent
PoolPrice == IF poolInfoPrice = Null THEN chainPrice ELSE poolInfoPrice

\* PoolMonitor.checkPrice (ok: the pool fetch that an absent pool info needs)
CheckPrice(t, ok) ==
    /\ UNCHANGED sinkUp
    /\ NoDone
    /\ task[t].pc = "it_price"
    /\ ok \/ poolInfoPrice = Null
    /\ IF ok
       THEN /\ poolInfoPrice' = PoolPrice
            /\ lastCheckedPrice' =
                  updateLastCheckedPrice(PoolPrice,
                      significantChange(PoolPrice, lastCheckedPrice), lastCheckedPrice)
            /\ task' = [task EXCEPT ![t] = [@ EXCEPT !.pc = "it_positions", !.ran = 1,
                            !.cur = PoolPrice, !.prev = lastCheckedPrice,
                            !.sig = significantChange(PoolPrice, lastCheckedPrice)]]
       ELSE /\ UNCHANGED <<poolInfoPrice, lastCheckedPrice>>
            /\ task' = [task EXCEPT ![t] =
                  Await(Failed(@, 1), IterFail(Failed(@, 1), 1), "runIteration")]
    /\ UNCHANGED <<botVars, chainVars>>

\* PoolMonitor.checkPositions: Clmm.getPositionsByOwner resolves with some
\* listing of the positions, which getPositions classifies at the price the
\* cached pool info holds at that moment
CheckPositions(t, ok) ==
    /\ UNCHANGED sinkUp
    /\ NoDone
    /\ task[t].pc = "it_positions"
    /\ IF ok
       THEN \E listing \in Listings(chainPositions) :
               LET ps == getPositions(listing, poolInfoPrice)
               IN task' = [task EXCEPT ![t] = [@ EXCEPT !.pc = "it_balances", !.ran = 2,
                               !.cur = Null, !.prev = Null, !.cnt = Len(ps.all), !.oor = Len(ps.out)]]
       ELSE task' = [task EXCEPT ![t] =
               Await(Failed(@, 2), IterFail(Failed(@, 2), 2), "runIteration")]
    /\ UNCHANGED <<botVars, poolInfoPrice, lastCheckedPrice, chainVars>>

\* Steps 4 and 5 of runIteration on the results of the three monitors; the
\* status handler answers with them instead
Decide(r) ==
    IF r.kind = "status" THEN [r EXCEPT !.pc = "done"]
    ELSE IF shouldRebalance(r.sig, r.oor, r.cnt)
         THEN [Forget(r) EXCEPT !.pc = "rb_positions"]
         ELSE IterDone(r)

\* PoolMonitor.checkWalletBalances: getSolBalance resolves with `sol`
CheckSolBalance(t, ok, sol) ==
    /\ UNCHANGED sinkUp
    /\ NoDone
    /\ task[t].pc = "it_balances"
    /\ ~ok => sol = minSolBalance
    /\ task' = [task EXCEPT ![t] =
          IF ok THEN [@ EXCEPT !.pc = "it_tokens", !.ran = 3, !.sol = sol]
          ELSE Await(Failed(@, 3), IterFail(Failed(@, 3), 3), "runIteration")]
    /\ UNCHANGED <<botVars, poolInfoPrice, lastCheckedPrice, chainVars>>

\* PoolMonitor.checkWalletBalances: getTokenBalances resolves.  a, b: the raw
\* balances of the pool's tokens (NoAccount: no token account); other: the
\* wallet has a token account of some other mint.
\* For every entry of the token map the loop calls raydiumService.getTokenAMint(),
\* which RaydiumService does not define: a TypeError unless the map is empty.
\* With an empty map a balance below the minimum sends "Low SOL Balance",
\* otherwise runIteration goes on to its decision.
CheckTokenBalances(t, ok, a, b, other) ==
    /\ UNCHANGED sinkUp
    /\ NoDone
    /\ task[t].pc = "it_tokens"
    /\ ~ok => (a = NoAccount /\ b = NoAccount /\ ~other)
    /\ task' = [task EXCEPT ![t] =
          IF ~ok \/ a # NoAccount \/ b # NoAccount \/ other
          THEN Await(Failed(@, 3), IterFail(Failed(@, 3), 3), "runIteration")
          ELSE IF belowMinimum(@.sol) THEN [@ EXCEPT !.pc = "it_low", !.low = 1]
          ELSE Decide(@)]
    /\ UNCHANGED <<botVars, poolInfoPrice, lastCheckedPrice, chainVars>>

\* The send of "Low SOL Balance" settles: checkWalletBalances returns and
\* runIteration decides.  An exception out of the send is rethrown by the
\* catch of checkWalletBalances to its caller's catch.
LowSent(t, delivered) ==
    /\ UNCHANGED sinkUp
    /\ NoDone
    /\ task[t].pc = "it_low"
    /\ task' = [task EXCEPT ![t] =
          IF sendNotification(delivered) = "threw"
          THEN Await(Failed(@, 3), IterFail(Failed(@, 3), 3), "runIteration")
          ELSE Decide(@)]
    /\ UNCHANGED <<botVars, poolInfoPrice, lastCheckedPrice, chainVars>>

\* --------------------------------------------------- the lifecycle manager

\* RaydiumService.getPositions, called by rebalanceIfNeeded with no pool info
\* cached: fetchPoolInfo resolves before the positions are listed
RbFetch(t, ok) ==
    /\ UNCHANGED sinkUp
    /\ NoDone
    /\ task[t].pc = "rb_fetch"
    /\ IF ok
       THEN /\ poolInfoPrice' = chainPrice
            /\ task' = [task EXCEPT ![t] = [@ EXCEPT !.pc = "rb_positions"]]
       ELSE /\ UNCHANGED poolInfoPrice
            /\ task' = [task EXCEPT ![t] = Await(@, RebalanceThrow(@), "rebalanceIfNeeded")]
    /\ UNCHANGED <<botVars, lastCheckedPrice, chainVars>>

\* (variant: with every position in range the rebalance opens one more position)
RbPositionsOpensAnyway(t, ok) ==
    /\ UNCHANGED sinkUp
    /\ NoDone
    /\ task[t].pc = "rb_positions"
    /\ IF ok
       THEN \E listing \in Listings(chainPositions) :
               LET ps == getPositions(listing, poolInfoPrice)
                   r == [task[t] EXCEPT !.rbCnt = Len(ps.all), !.rbOor = Len(ps.out)]
               IN task' = [task EXCEPT ![t] =
                     IF Len(ps.all) = 0 THEN [r EXCEPT !.pc = "co_tokens"]
                     ELSE IF Len(ps.out) > 0 THEN [r EXCEPT !.pc = "wd_positions"]
                     ELSE [r EXCEPT !.pc = "co_pool"]]
       ELSE task' = [task EXCEPT ![t] = Await(@, RebalanceThrow(@), "rebalanceIfNeeded")]
    /\ UNCHANGED <<botVars, poolInfoPrice, lastCheckedPrice, chainVars>>

\* PositionManager.rebalanceIfNeeded: its position listing resolves and is
\* classified at the price of the cached pool info
RbPositions(t, ok) ==
    /\ UNCHANGED sinkUp
    /\ NoDone
    /\ task[t].pc = "rb_positions"
    /\ IF ok
       THEN \E listing \in Listings(chainPositions) :
               LET ps == getPositions(listing, poolInfoPrice)
                   r == [task[t] EXCEPT !.rbCnt = Len(ps.all), !.rbOor = Len(ps.out)]
               IN task' = [task EXCEPT ![t] =
                     IF Len(ps.all) = 0 THEN [r EXCEPT !.pc = "co_tokens"]
                     ELSE IF Len(ps.out) > 0 THEN [r EXCEPT !.pc = "wd_positions"]
                     ELSE RebalanceEnd(r, "false")]
       ELSE task' = [task EXCEPT ![t] = Await(@, RebalanceThrow(@), "rebalanceIfNeeded")]
    /\ UNCHANGED <<botVars, poolInfoPrice, lastCheckedPrice, chainVars>>

\* PositionManager.createOptimalPosition: the token balances resolve
CoTokens(t, ok, a, b) ==
    /\ UNCHANGED sinkUp
    /\ NoDone
    /\ task[t].pc = "co_tokens"
    /\ ~ok => (a = NoAccount /\ b = NoAccount)
    /\ task' = [task EXCEPT ![t] =
          IF ok THEN [@ EXCEPT !.pc = "co_positions", !.tokA = a, !.tokB = b]
          ELSE Await(@, CreateThrow(@, 0), "createOptimalPosition")]
    /\ UNCHANGED <<botVars, poolInfoPrice, lastCheckedPrice, chainVars>>

\* PositionManager.createOptimalPosition: the position listing resolves
CoPositions(t, ok) ==
    /\ UNCHANGED sinkUp
    /\ NoDone
    /\ task[t].pc = "co_positions"
    /\ task' = [task EXCEPT ![t] =
          IF ~ok THEN Await(@, CreateThrow(@, 0), "createOptimalPosition")
          ELSE IF Cardinality(chainPositions) > 0
          THEN RebalanceEnd([@ EXCEPT !.coCnt = Cardinality(chainPositions)],
                            rebalanceReturn(Null))
          ELSE [@ EXCEPT !.pc = "co_pool", !.coCnt = 0]]
    /\ UNCHANGED <<botVars, poolInfoPrice, lastCheckedPrice, chainVars>>

\* PositionManager.createOptimalPosition: fetchPoolInfo resolves; the balance
\* checks, the 95% sizing, and RaydiumService.createPosition up to its await
\* of the open-position instructions, the band taken around the price just
\* fetched
CoPool(t, ok) ==
    /\ UNCHANGED sinkUp
    /\ NoDone
    /\ task[t].pc = "co_pool"
    /\ IF ok
       THEN LET band == calculatePriceRange(chainPrice)
                r == task[t]
                sized == [r EXCEPT !.amtA = amount95(r.tokA), !.amtB = amount95(r.tokB),
                                   !.lo = band.lowerPrice, !.hi = band.upperPrice]
            IN /\ poolInfoPrice' = chainPrice
               /\ task' = [task EXCEPT ![t] =
                     IF ~sufficientBalances(r.tokA, r.tokB)
                     THEN RebalanceEnd(r, rebalanceReturn(Null))
                     ELSE [sized EXCEPT !.pc = "co_build"]]
       ELSE /\ UNCHANGED poolInfoPrice
            /\ task' = [task EXCEPT ![t] = Await(@, CreateThrow(@, 0), "createOptimalPosition")]
    /\ UNCHANGED <<botVars, lastCheckedPrice, chainVars>>

\* RaydiumService.createPosition: Clmm.makeOpenPositionInstructionV2 resolves
\* and the transaction is handed to signAndSendTransaction.  Failure:
\* createPosition notifies and rethrows, createOptimalPosition notifies.
CoBuild(t, built) ==
    /\ UNCHANGED sinkUp
    /\ NoDone
    /\ task[t].pc = "co_build"
    /\ task' = [task EXCEPT ![t] =
          IF built THEN [@ EXCEPT !.pc = "co_hash", !.ev = Append(@, "open")]
          ELSE Await(@, CreateThrow(@, 1), "createOptimalPosition")]
    /\ UNCHANGED <<botVars, poolInfoPrice, lastCheckedPrice, chainVars>>

\* SolanaService.signAndSendTransaction of the open: getLatestBlockhash resolves
CoHash(t, ok) ==
    /\ UNCHANGED sinkUp
    /\ NoDone
    /\ task[t].pc = "co_hash"
    /\ task' = [task EXCEPT ![t] =
          IF ok THEN [@ EXCEPT !.pc = "co_tx"]
          ELSE LET failed == [@ EXCEPT !.ev = Append(@, "open_failed")]
               IN Await(failed, CreateThrow(failed, 1), "createOptimalPosition")]
    /\ UNCHANGED <<botVars, poolInfoPrice, lastCheckedPrice, chainVars>>

\* sendAndConfirmTransaction of the open resolves.  ok: the position exists on
\* chain, "Position Created" is sent and the signature is returned.  Failure:
\* createPosition notifies and rethrows, createOptimalPosition notifies.
CoTx(t, ok) ==
    /\ UNCHANGED sinkUp
    /\ NoDone
    /\ task[t].pc = "co_tx"
    /\ IF ok
       THEN /\ nextId <= MaxPositionId
            /\ chainPositions' = chainPositions \cup
                  {[id |-> nextId, lowerPrice |-> task[t].lo, upperPrice |-> task[t].hi]}
            /\ nextId' = nextId + 1
            /\ task' = [task EXCEPT ![t] =
                  LET opened == [@ EXCEPT !.openOk = TRUE, !.ev = Append(@, "opened")]
                  IN Suspended(opened, RebalanceEnd(opened, rebalanceReturn(nextId)), 1,
                               "createPosition")]
       ELSE /\ UNCHANGED <<chainPositions, nextId>>
            /\ task' = [task EXCEPT ![t] =
                  LET failed == [@ EXCEPT !.ev = Append(@, "open_failed")]
                  IN Await(failed, CreateThrow(failed, 1), "createOptimalPosition")]
    /\ UNCHANGED <<botVars, poolInfoPrice, lastCheckedPrice, chainPrice>>

\* PositionManager.withdrawOutOfRangePositions: the position listing resolves;
\* the out-of-range positions are taken in the order of the listing, and
\* RaydiumService.withdrawPosition of the first runs up to its await of the
\* close-position instructions
WdPositions(t, ok) ==
    /\ UNCHANGED sinkUp
    /\ NoDone
    /\ task[t].pc = "wd_positions"
    /\ IF ok
       THEN \E listing \in Listings(chainPositions) :
               LET ps == getPositions(listing, poolInfoPrice)
               IN task' = [task EXCEPT ![t] =
                     IF Len(ps.out) = 0 THEN WithdrawReturn(@, << >>)
                     ELSE [@ EXCEPT !.pc = "wd_build", !.queue = ps.out]]
       ELSE task' = [task EXCEPT ![t] = Await(@, WithdrawThrow(@, 0), "withdrawOutOfRangePositions")]
    /\ UNCHANGED <<botVars, poolInfoPrice, lastCheckedPrice, chainVars>>

\* RaydiumService.withdrawPosition of the position at the head of the queue:
\* Clmm.makeClosePositionInstruction resolves and the transaction is handed to
\* signAndSendTransaction.  Failure: withdrawPosition notifies and rethrows.
WdBuild(t, built) ==
    /\ UNCHANGED sinkUp
    /\ NoDone
    /\ task[t].pc = "wd_build"
    /\ task' = [task EXCEPT ![t] =
          IF built THEN [@ EXCEPT !.pc = "wd_hash", !.ev = Append(@, "close")]
          ELSE Await(@, WithdrawThrow(@, 1), "withdrawOutOfRangePositions")]
    /\ UNCHANGED <<botVars, poolInfoPrice, lastCheckedPrice, chainVars>>

\* SolanaService.signAndSendTransaction of the close: getLatestBlockhash resolves
WdHash(t, ok) ==
    /\ UNCHANGED sinkUp
    /\ NoDone
    /\ task[t].pc = "wd_hash"
    /\ task' = [task EXCEPT ![t] =
          IF ok THEN [@ EXCEPT !.pc = "wd_tx"]
          ELSE LET failed == [@ EXCEPT !.ev = Append(@, "close_failed")]
               IN Await(failed, WithdrawThrow(failed, 1), "withdrawOutOfRangePositions")]
    /\ UNCHANGED <<botVars, poolInfoPrice, lastCheckedPrice, chainVars>>

\* sendAndConfirmTransaction of the close resolves.  ok: the position is
\* closed on chain, "Position Withdrawn" is sent, the signature is collected
\* and the loop goes on to withdrawPosition of the next position.
\* Failure: withdrawPosition notifies and rethrows.
WdTx(t, ok) ==
    /\ UNCHANGED sinkUp
    /\ NoDone
    /\ task[t].pc = "wd_tx"
    /\ LET r == task[t]
           id == Head(r.queue)
           sigs == Append(r.signatures, id)
           closed == [r EXCEPT !.ev = Append(@, "closed")]
           next == [closed EXCEPT !.queue = Tail(r.queue), !.signatures = sigs]
       IN IF ok
          THEN /\ \E p \in chainPositions : p.id = id
               /\ chainPositions' = {p \in chainPositions : p.id # id}
               /\ task' = [task EXCEPT ![t] = Suspended(closed,
                     IF Len(r.queue) = 1 THEN WithdrawReturn(next, sigs)
                     ELSE [next EXCEPT !.pc = "wd_build"], 1, "withdrawPosition")]
          ELSE /\ UNCHANGED chainPositions
               /\ task' = [task EXCEPT ![t] =
                     LET failed == [r EXCEPT !.ev = Append(@, "close_failed")]
                     IN Await(failed, WithdrawThrow(failed, 1), "withdrawOutOfRangePositions")]
    /\ UNCHANGED <<botVars, poolInfoPrice, lastCheckedPrice, chainPrice, nextId>>

\* (variant: the settle delay is abandoned once the bot is stopped)
SettleWhileRunning(t) ==
    /\ UNCHANGED sinkUp
    /\ NoDone
    /\ isRunning
    /\ task[t].pc = "settle"
    /\ task' = [task EXCEPT ![t] = [@ EXCEPT !.pc = "co_tokens", !.ev = Append(@, "settle")]]
    /\ UNCHANGED <<botVars, poolInfoPrice, lastCheckedPrice, chainVars>>

\* The 5-second settle delay of rebalanceIfNeeded has elapsed
Settle(t) ==
    /\ UNCHANGED sinkUp
    /\ NoDone
    /\ task[t].pc = "settle"
    /\ task' = [task EXCEPT ![t] = [@ EXCEPT !.pc = "co_tokens", !.ev = Append(@, "settle")]]
    /\ UNCHANGED <<botVars, poolInfoPrice, lastCheckedPrice, chainVars>>

\* The caller (host or cron) has the call's result; the calls still in
\* progress stay listed oldest first
Return(t) ==
    /\ UNCHANGED sinkUp
    /\ task[t].pc = "done"
    /\ task' = [u \in Tasks |-> IF u < t THEN task[u]
                                ELSE IF u < MaxTasks THEN task[u + 1] ELSE IdleTask]
    /\ UNCHANGED <<botVars, poolInfoPrice, lastCheckedPrice, chainVars>>

\* The pool's moves and the calls of the host and of the timer are followed
\* until the position ids are used up; the calls then in progress run to
\* their end
IdsLeft == nextId <= MaxPositionId

Next ==
    \/ \E p \in LoopPrices : IdsLeft /\ EnvPriceMove(p)
    \/ \E t \in Tasks : IdsLeft /\ StartCall(t)
    \/ \E t \in Tasks, ok \in BOOLEAN : StartInit(t, ok)
    \/ \E t \in Tasks : StartNotified(t, sinkUp)
    \/ \E t \in Tasks : IdsLeft /\ Stop(t)
    \/ \E t \in Tasks : IdsLeft /\ Tick(t)
    \/ \E t \in Tasks : SinkAnswers(t, sinkUp)
    \/ \E t \in Tasks, ok \in BOOLEAN : CheckPrice(t, ok)
    \/ \E t \in Tasks, ok \in BOOLEAN : CheckPositions(t, ok)
    \/ \E t \in Tasks, ok \in BOOLEAN, sol \in SolValues : CheckSolBalance(t, ok, sol)
    \/ \E t \in Tasks, ok \in BOOLEAN, w \in LoopWallets :
          CheckTokenBalances(t, ok, w[1], w[2], w[3])
    \/ \E t \in Tasks : LowSent(t, sinkUp)
    \/ \E t \in Tasks, ok \in BOOLEAN : RbPositions(t, ok)
    \/ \E t \in Tasks, ok \in BOOLEAN, ab \in LoopBalances : CoTokens(t, ok, ab[1], ab[2])
    \/ \E t \in Tasks, ok \in BOOLEAN : CoPositions(t, ok)
    \/ \E t \in Tasks, ok \in BOOLEAN : CoPool(t, ok)
    \/ \E t \in Tasks, built \in BOOLEAN : CoBuild(t, built)
    \/ \E t \in Tasks, ok \in BOOLEAN : CoHash(t, ok)
    \/ \E t \in Tasks, ok \in BOOLEAN : CoTx(t, ok)
    \/ \E t \in Tasks, ok \in BOOLEAN : WdPositions(t, ok)
    \/ \E t \in Tasks, built \in BOOLEAN : WdBuild(t, built)
    \/ \E t \in Tasks, ok \in BOOLEAN : WdHash(t, ok)
    \/ \E t \in Tasks, ok \in BOOLEAN : WdTx(t, ok)
    \/ \E t \in Tasks : Settle(t)
    \/ \E t \in Tasks : Return(t)

Spec == Init /\ [][Next]_vars


\* ------------------------------------------- direct calls of the lifecycle

\* Positions opened out-of-band before the bot runs
PreExisting ==
    {[id |-> 101, lowerPrice |-> 9500, upperPrice |-> 10500],
     [id |-> 102, lowerPrice |-> 8000, upperPrice |-> 9000],
     [id |-> 103, lowerPrice |-> 11000, upperPrice |-> 12000]}

InitCall ==
    /\ isRunning = FALSE
    /\ cronJob = FALSE
    /\ timers = 0
    /\ poolInfoPrice = Null
    /\ lastCheckedPrice = Null
    /\ chainPrice \in Prices
    /\ chainPositions \in {S \in SUBSET PreExisting : Cardinality(S) <= MaxPreExisting}
    /\ nextId = 1
    /\ sinkUp = TRUE
    /\ task = [t \in Tasks |-> IdleTask]

\* positionManager.rebalanceIfNeeded is called: its getPositions awaits
\* fetchPoolInfo when no pool info is cached, otherwise the position listing
RebalanceCall(t) ==
    /\ UNCHANGED sinkUp
    /\ NoDone
    /\ Free(t)
    /\ task' = [task EXCEPT ![t] =
          [IdleTask EXCEPT !.pc = IF poolInfoPrice = Null THEN "rb_fetch" ELSE "rb_positions",
                           !.kind = "call"]]
    /\ UNCHANGED <<botVars, poolInfoPrice, lastCheckedPrice, chainVars>>

NextCall ==
    \/ \E p \in Prices : EnvPriceMove(p)
    \/ RebalanceCall(1)
    \/ SinkAnswers(1, sinkUp)
    \/ \E ok \in BOOLEAN : RbFetch(1, ok)
    \/ \E ok \in BOOLEAN : RbPositions(1, ok)
    \/ \E ok \in BOOLEAN, a \in BalanceValues, b \in BalanceValues : CoTokens(1, ok, a, b)
    \/ \E ok \in BOOLEAN : CoPositions(1, ok)
    \/ \E ok \in BOOLEAN : CoPool(1, ok)
    \/ \E built \in BOOLEAN : CoBuild(1, built)
    \/ \E ok \in BOOLEAN : CoHash(1, ok)
    \/ \E ok \in BOOLEAN : CoTx(1, ok)
    \/ \E ok \in BOOLEAN : WdPositions(1, ok)
    \/ \E built \in BOOLEAN : WdBuild(1, built)
    \/ \E ok \in BOOLEAN : WdHash(1, ok)
    \/ \E ok \in BOOLEAN : WdTx(1, ok)
    \/ Settle(1)
    \/ Return(1)

SpecCall == InitCall /\ [][NextCall]_vars


\* ---------------------------------------- one call at a time (no overlap)

\* The Notification Sink goes down or comes back: webhook.send rejects while
\* it is down
EnvSink ==
    /\ NoDone
    /\ sinkUp' = ~sinkUp
    /\ UNCHANGED <<botVars, poolInfoPrice, lastCheckedPrice, chainVars, task>>

\* The bot when the host and the timer never have two calls in progress
NextSeq ==
    \/ \E p \in Prices : EnvPriceMove(p)
    \/ EnvSink
    \/ StartCall(1)
    \/ \E ok \in BOOLEAN : StartInit(1, ok)
    \/ StartNotified(1, sinkUp)
    \/ Stop(1)
    \/ Tick(1)
    \/ SinkAnswers(1, sinkUp)
    \/ \E ok \in BOOLEAN : CheckPrice(1, ok)
    \/ \E ok \in BOOLEAN : CheckPositions(1, ok)
    \/ \E ok \in BOOLEAN, sol \in SolValues : CheckSolBalance(1, ok, sol)
    \/ \E ok \in BOOLEAN, a \in BalanceValues, b \in BalanceValues, other \in BOOLEAN :
          CheckTokenBalances(1, ok, a, b, other)
    \/ LowSent(1, sinkUp)
    \/ \E ok \in BOOLEAN : RbPositions(1, ok)
    \/ \E ok \in BOOLEAN, a \in BalanceValues, b \in BalanceValues : CoTokens(1, ok, a, b)
    \/ \E ok \in BOOLEAN : CoPositions(1, ok)
    \/ \E ok \in BOOLEAN : CoPool(1, ok)
    \/ \E built \in BOOLEAN : CoBuild(1, built)
    \/ \E ok \in BOOLEAN : CoHash(1, ok)
    \/ \E ok \in BOOLEAN : CoTx(1, ok)
    \/ \E ok \in BOOLEAN : WdPositions(1, ok)
    \/ \E built \in BOOLEAN : WdBuild(1, built)
    \/ \E ok \in BOOLEAN : WdHash(1, ok)
    \/ \E ok \in BOOLEAN : WdTx(1, ok)
    \/ Settle(1)
    \/ Return(1)

SpecSeq == InitCall /\ [][NextSeq]_vars


\* ------------------------------------------------ the host's status query

\* GET status: isActive() is read; when the bot is running the handler calls
\* checkPrice, checkPositions and checkWalletBalances of the shared
\* PoolMonitor and answers with their results, otherwise it answers at once
StatusCall(t) ==
    /\ UNCHANGED sinkUp
    /\ NoDone
    /\ Free(t)
    /\ task' = [task EXCEPT ![t] =
                   IF isRunning
                   THEN [IdleTask EXCEPT !.pc = "it_price", !.kind = "status"]
                   ELSE [IdleTask EXCEPT !.pc = "done", !.kind = "status"]]
    /\ UNCHANGED <<botVars, poolInfoPrice, lastCheckedPrice, chainVars>>

NextStatus ==
    \/ NextSeq
    \/ StatusCall(1)

SpecStatus == InitCall /\ [][NextStatus]_vars


\* ------------------------------- the decision of runIteration on its inputs

\* An iteration that has its price sample, its position counts and the native
\* balance, and awaits the token balances.  sig, cnt and oor take every value of their types, so
\* that the three conditions of the decision vary independently (the
\* monitors themselves never report oor > cnt).
InitDecide ==
    /\ isRunning = TRUE
    /\ cronJob = TRUE
    /\ timers = 1
    /\ chainPrice \in Prices
    /\ poolInfoPrice = chainPrice
    /\ lastCheckedPrice = chainPrice
    /\ chainPositions \in {S \in SUBSET PreExisting : Cardinality(S) <= MaxPreExisting}
    /\ nextId = 1
    /\ sinkUp = TRUE
    /\ \E s \in BOOLEAN, c \in 0..MaxPreExisting, o \in 0..MaxPreExisting, sol \in SolValues :
          task = [t \in Tasks |->
                    IF t = 1
                    THEN [IdleTask EXCEPT !.pc = "it_tokens", !.kind = "tick", !.ran = 3,
                                          !.sig = s, !.cnt = c, !.oor = o, !.sol = sol]
                    ELSE IdleTask]

NextDecide ==
    \/ \E ok \in BOOLEAN, a \in BalanceValues, b \in BalanceValues, other \in BOOLEAN :
          CheckTokenBalances(1, ok, a, b, other)
    \/ LowSent(1, sinkUp)
    \/ SinkAnswers(1, sinkUp)
    \/ Return(1)

SpecDecide == InitDecide /\ [][NextDecide]_vars

\* ------------------------------------ the running bot under a healthy Gateway

\* Token balances at or above the floor of createOptimalPosition
FundedBalances == {1000, 1010}

\* A stopped bot whose pool holds no position, or one position that is out of
\* range at every price the pool takes
InitLive ==
    /\ isRunning = FALSE
    /\ cronJob = FALSE
    /\ timers = 0
    /\ poolInfoPrice = Null
    /\ lastCheckedPrice = Null
    /\ chainPrice \in Prices
    /\ chainPositions \in {{}, {[id |-> 102, lowerPrice |-> 8000, upperPrice |-> 9000]}}
    /\ nextId = 1
    /\ sinkUp = TRUE
    /\ task = [t \in Tasks |-> IdleTask]

\* The pool price only rises, so it stops changing after finitely many moves
PriceRises == \E p \in Prices : p > chainPrice /\ EnvPriceMove(p)

\* The awaits of the call in progress resolve, every Gateway call succeeding
\* and the wallet holding both pool tokens
LiveSteps ==
    \/ StartInit(1, TRUE)
    \/ StartNotified(1, sinkUp)
    \/ SinkAnswers(1, sinkUp)
    \/ CheckPrice(1, TRUE)
    \/ CheckPositions(1, TRUE)
    \/ \E sol \in SolValues : CheckSolBalance(1, TRUE, sol)
    \/ \E a \in FundedBalances, b \in FundedBalances : CheckTokenBalances(1, TRUE, a, b, FALSE)
    \/ RbFetch(1, TRUE)
    \/ RbPositions(1, TRUE)
    \/ \E a \in FundedBalances, b \in FundedBalances : CoTokens(1, TRUE, a, b)
    \/ CoPositions(1, TRUE)
    \/ CoPool(1, TRUE)
    \/ CoBuild(1, TRUE)
    \/ CoHash(1, TRUE)
    \/ CoTx(1, TRUE)
    \/ WdPositions(1, TRUE)
    \/ WdBuild(1, TRUE)
    \/ WdHash(1, TRUE)
    \/ WdTx(1, TRUE)
    \/ Settle(1)
    \/ Return(1)

\* The host starts the bot and never stops it; the cron task fires; the host
\* may also call positionManager.rebalanceIfNeeded itself
NextLive ==
    \/ PriceRises
    \/ StartCall(1)
    \/ Tick(1)
    \/ RebalanceCall(1)
    \/ LiveSteps

\* The host does start the bot, an armed cron task keeps firing however often
\* other calls are made in between (strong fairness), and every await
\* resolves; nothing is assumed of the host's own rebalance calls
SpecLive ==
    /\ InitLive
    /\ [][NextLive]_vars
    /\ SF_vars(~isRunning /\ StartCall(1))
    /\ SF_vars(Tick(1))
    /\ WF_vars(LiveSteps)

\* ================================================================ claims

\* C1 (single-flight): at every moment at most one iteration (runIteration)
\* is executing; a trigger that arrives while an iteration runs is skipped.
C1_SingleFlight ==
    Cardinality({t \in Tasks : InIteration(task[t])}) <= 1

\* C2 (transaction serialization): at most one transaction submission
\* (open-position or close-position) is in flight at any time.
C2_TransactionsSerialized ==
    Cardinality({t \in Tasks : task[t].pc \in TxPcs}) <= 1

\* C3 (position count): starting with at most one open position and with no
\* out-of-band position changes, the pool never holds more than one open position.
C3_AtMostOnePosition ==
    Cardinality(chainPositions) <= 1

\* C4: when a withdrawal fails inside withdrawOutOfRangePositions, the call
\* returns exactly the signatures of the withdrawals that had already
\* succeeded in that call, in order.
C4_PartialSignaturesReturned ==
    \A t \in Tasks : task[t].wdFailed => task[t].wdRet = task[t].signatures

\* C5: when pool metadata cannot be resolved during start(), the error
\* propagates out of start() to the host.
C5_StartFailurePropagates ==
    \A t \in Tasks : task[t].initFailed => task[t].start = "threw"

\* C6 (price freshness): the current price of an iteration's price sample is
\* the pool's price at the Gateway at the time of that iteration.
C6_PriceFresh ==
    [][\A t \in Tasks :
          (task[t].pc = "it_price" /\ task'[t].pc = "it_positions")
              => task'[t].cur = chainPrice]_vars

\* C7 (as claimed): a failure of observePrice or observePositions does not
\* prevent the remaining monitor steps of that iteration from being attempted.
C7_RemainingStepsRun ==
    \A t \in Tasks :
        (task[t].pc = "done" /\ task[t].failedAt \in {1, 2}) => task[t].ran = 3

\* C7 (amended): a failure in a monitor step ends the iteration at that step:
\* no later monitor step and no rebalance is attempted, the failure is caught
\* once at the iteration boundary and reported by exactly one error
\* notification, and runIteration returns normally.
C7_FailureEndsIteration ==
    \A t \in Tasks :
        (task[t].pc = "done" /\ task[t].failedAt \in {1, 2, 3})
            => /\ task[t].ran = task[t].failedAt
               /\ task[t].rb = "none"
               /\ task[t].errs = 1
               /\ task[t].iter = "returned"

C7_Witness ==
    \E t \in Tasks : task[t].pc = "done" /\ task[t].failedAt = 2 /\ task[t].ran = 2

\* C8 (iteration failure containment): runIteration never propagates an
\* exception; a failed monitor is reported by an error notification, the
\* failing step leaves the bot Running with its timer armed, and while a timer
\* is armed the next tick starts an iteration (no backoff, no permanent stop).
C8_IterationContained ==
    /\ [](\A t \in Tasks :
            /\ task[t].iter # "threw"
            /\ (task[t].pc = "done" /\ task[t].failedAt > 0)
                   => (task[t].iter = "returned" /\ task[t].errs >= 1))
    /\ []((NoDone /\ timers > 0 /\ \E t \in Tasks : task[t].pc = "idle")
            => ENABLED (\E t \in Tasks : Tick(t)))
    /\ [][\A t \in Tasks :
            /\ (task[t].pc \in IterationPcs /\ task'[t].pc = "done" /\ task'[t].failedAt > 0)
                   => UNCHANGED botVars
            /\ (task[t].pc \in IterationPcs /\ task'[t].pc = "sink"
                    /\ task'[t].after.failedAt > 0)
                   => UNCHANGED botVars
            /\ (task[t].pc = "sink" /\ task[t].after.failedAt > 0 /\ task'[t] # task[t])
                   => UNCHANGED botVars]_vars

C8_Witness ==
    \E t \in Tasks :
        /\ task[t].pc = "done" /\ task[t].kind = "tick" /\ task[t].failedAt > 0
        /\ task[t].iter = "returned" /\ isRunning /\ timers > 0


\* C9: rebalanceIfNeeded never propagates an exception: whatever Gateway read
\* or transaction fails inside it, the call returns false and an error
\* notification has been emitted.
C9_RebalanceContained ==
    \A t \in Tasks :
        task[t].rb # "none"
            => /\ task[t].rb \in {"true", "false"}
               /\ task[t].rbFailed => (task[t].rb = "false" /\ task[t].errs >= 1)

C9_Witness ==
    \E t \in Tasks :
        /\ task[t].pc = "done" /\ task[t].rbFailed /\ task[t].rb = "false"
        /\ task[t].kind = "tick" /\ task[t].lo > 0 /\ task[t].errs = 2

\* C10: rebalanceIfNeeded returns true if and only if an open-position
\* transaction succeeded during that call; the positions it has withdrawn stay
\* closed whatever it returns (nothing is rolled back).
C10_TrueIffCreated ==
    \A t \in Tasks :
        /\ task[t].rb # "none" => (task[t].rb = "true" <=> task[t].openOk)
        /\ \A i \in 1..Len(task[t].signatures) :
               \A p \in chainPositions : p.id # task[t].signatures[i]

C10_Witness ==
    \E t \in Tasks :
        /\ task[t].pc = "done" /\ task[t].rb = "false" /\ ~task[t].openOk
        /\ Len(task[t].signatures) > 0 /\ task[t].lo > 0 /\ task[t].rbFailed

\* Something has failed in the rebalance of call r: a catch of the lifecycle
\* manager has run, or the call awaits the error notification on its way there
Failing(r) == r.rbFailed \/ (r.pc = "sink" /\ r.after.rbFailed)

\* C11: a rebalanceIfNeeded call that lists exactly one position, out of range,
\* performs (while nothing fails) close, settle delay, open in this order: its
\* events are a prefix of close, closed, settle, open, opened, and with
\* sufficient balances it ends with all five and returns true.  In every call
\* an open-position transaction is submitted at most once, and when the call
\* closed positions, only after the last close and after the settle delay.
C11_CloseSettleOpen ==
    \A t \in Tasks :
        LET r == task[t]
            full == <<"close", "closed", "settle", "open", "opened">>
        IN /\ (r.rbCnt = 1 /\ r.rbOor = 1 /\ ~Failing(r))
                 => /\ Len(r.ev) <= Len(full)
                    /\ r.ev = SubSeq(full, 1, Len(r.ev))
                    /\ (r.pc = "done" /\ r.tokA >= 1000 /\ r.tokB >= 1000)
                           => (r.ev = full /\ r.rb = "true")
           /\ \A i \in 1..Len(r.ev) :
                 r.ev[i] = "open"
                    => /\ \A j \in 1..Len(r.ev) : r.ev[j] = "open" => j = i
                       /\ \A j \in 1..Len(r.ev) :
                              r.ev[j] \in {"close", "closed", "close_failed", "settle"} => j < i
                       /\ (\E j \in 1..Len(r.ev) : r.ev[j] = "close")
                              => (i > 1 /\ r.ev[i - 1] = "settle")

C11_Witness ==
    \E t \in Tasks :
        /\ task[t].pc = "done" /\ task[t].rbCnt = 1 /\ task[t].rbOor = 1
        /\ task[t].ev = <<"close", "closed", "settle", "open", "opened">>

\* C12: a rebalanceIfNeeded call that lists zero positions and reads both
\* pool-token balances at or above the floor submits (while nothing fails)
\* exactly one open-position transaction and no close-position transaction,
\* with maximum amounts floor(balance*95/100), and returns true.
C12_CreateFromEmpty ==
    \A t \in Tasks :
        LET r == task[t]
        IN (r.pc = "done" /\ r.rbCnt = 0 /\ ~r.rbFailed /\ r.tokA >= 1000 /\ r.tokB >= 1000)
              => /\ r.ev = <<"open", "opened">>
                 /\ r.amtA * 100 <= r.tokA * 95 /\ r.tokA * 95 < (r.amtA + 1) * 100
                 /\ r.amtB * 100 <= r.tokB * 95 /\ r.tokB * 95 < (r.amtB + 1) * 100
                 /\ r.rb = "true"

C12_Witness ==
    \E t \in Tasks :
        /\ task[t].pc = "done" /\ task[t].rbCnt = 0 /\ task[t].ev = <<"open", "opened">>
        /\ task[t].tokA = 1000 /\ task[t].amtA = 950
        /\ task[t].tokB = 1010 /\ task[t].amtB = 959

\* C13: createOptimalPosition submits an open-position transaction only if
\* its own listing shows zero positions and both pool-token balances exist and
\* are at least 1000; when a position exists, or a balance is missing or
\* below the floor, it returns none without a transaction.
C13_CreatePreconditions ==
    \A t \in Tasks :
        LET r == task[t]
            opens == \E i \in 1..Len(r.ev) : r.ev[i] = "open"
            floorMet == r.tokA # NoAccount /\ r.tokB # NoAccount
                        /\ r.tokA >= 1000 /\ r.tokB >= 1000
        IN /\ opens => (r.coCnt = 0 /\ floorMet)
           /\ (r.pc = "done" /\ (r.coCnt > 0 \/ (r.coCnt = 0 /\ ~floorMet)))
                 => (~opens /\ ~r.openOk /\ r.rb = "false")

C13_Witness ==
    \E t \in Tasks :
        /\ task[t].pc = "done" /\ task[t].coCnt = 1 /\ ~task[t].rbFailed
        /\ task[t].tokA = 1000 /\ task[t].tokB = 1010
        /\ task[t].ev = <<"close", "closed", "settle">>

\* C14: the rebalance decision of an iteration is true exactly when the price
\* sample's significantChange is true, or outOfRangeCount > 0, or the position
\* count is 0, whatever the balances read and whatever the rest of the state.
C14_DecisionIsDisjunction ==
    [][\A t \in Tasks :
          (task[t].pc \in {"it_tokens", "it_low"}
              /\ task'[t].pc \notin {"it_tokens", "it_low", "sink"} /\ task'[t].failedAt = 0)
              => /\ task'[t].pc \in {"rb_positions", "done"}
                 /\ (task'[t].pc = "rb_positions")
                        <=> (task[t].sig \/ task[t].oor > 0 \/ task[t].cnt = 0)
                 /\ task'[t].pc = "done" => task'[t].rb = "none"]_vars

C14_Witness ==
    \E t \in Tasks :
        /\ task[t].pc = "done" /\ task[t].kind = "tick" /\ task[t].ran = 3
        /\ task[t].failedAt = 0 /\ task[t].rb = "none"
        /\ ~task[t].sig /\ task[t].oor = 0 /\ task[t].cnt > 0

\* C15: the significantChange of a price sample is true exactly when a
\* previous price is stored and |p - prev| / prev is strictly greater than
\* rebalanceThresholdPercent / 100; on the first sample it is false.
C15_SignificantChange ==
    \A t \in Tasks :
        LET r == task[t]
        IN r.pc = "it_positions"
              => r.sig = /\ r.prev # Null
                         /\ \/ (r.cur - r.prev) * 100 > rebalanceThresholdPercent * r.prev
                            \/ (r.prev - r.cur) * 100 > rebalanceThresholdPercent * r.prev

C15_Witness ==
    \E t \in Tasks :
        /\ task[t].pc = "it_positions" /\ task[t].prev = 100 /\ task[t].cur = 101
        /\ ~task[t].sig

\* C16: a successful checkPrice stores the price it observed, whether or not
\* the change was significant, and the comparison of that call used the value
\* stored before the update.
C16_LastPriceUpdated ==
    [][\A t \in Tasks :
          (task[t].pc = "it_price" /\ task'[t].pc = "it_positions")
              => /\ lastCheckedPrice' = task'[t].cur
                 /\ task'[t].prev = lastCheckedPrice]_vars

C16_Witness ==
    \E t \in Tasks :
        /\ task[t].pc = "it_positions" /\ task[t].prev = 101 /\ task[t].cur = 100
        /\ ~task[t].sig /\ lastCheckedPrice = 100

\* C17: checkPositions reports the number of positions of the pool and the
\* number of those whose band does not contain the current price, where a
\* price equal to the lower or the upper bound is inside the band.
C17_PositionCounts ==
    [][\A t \in Tasks :
          (task[t].pc = "it_positions" /\ task'[t].pc = "it_balances")
              => /\ task'[t].cnt = Cardinality(chainPositions)
                 /\ task'[t].oor = Cardinality({p \in chainPositions :
                        ~(p.lowerPrice <= PoolPrice * 100 /\ PoolPrice * 100 <= p.upperPrice)})]_vars

C17_Witness ==
    \E t \in Tasks :
        /\ task[t].pc = "it_balances" /\ task[t].cnt = 2 /\ task[t].oor = 1
        /\ poolInfoPrice = 105
        /\ \E p \in chainPositions : p.upperPrice = 10500

\* C18: the band handed to the open-position transaction is
\* lower = price * (1 - priceRangePercent/100) and
\* upper = price * (1 + priceRangePercent/100) for the price read in the create
\* call, so lower <= price <= upper, and a position the bot has opened is in
\* range at the price it was created at.
C18_BandAroundPrice ==
    /\ [][\A t \in Tasks :
             (task[t].pc = "co_pool" /\ task'[t].pc = "co_build")
                 => /\ task'[t].lo = poolInfoPrice' * (100 - priceRangePercent)
                    /\ task'[t].hi = poolInfoPrice' * (100 + priceRangePercent)
                    /\ task'[t].lo <= poolInfoPrice' * 100
                    /\ poolInfoPrice' * 100 <= task'[t].hi]_vars
    /\ [][\A t \in Tasks :
             (task[t].pc = "co_tx" /\ task'[t].openOk)
                 => \E p \in chainPositions' :
                       /\ p \notin chainPositions
                       /\ p.lowerPrice = task[t].lo /\ p.upperPrice = task[t].hi
                       /\ p.lowerPrice <= poolInfoPrice * 100
                       /\ poolInfoPrice * 100 <= p.upperPrice]_vars

C18_Witness ==
    \E p \in chainPositions : p.id = 1 /\ p.lowerPrice = 9975 /\ p.upperPrice = 11025

\* C19: a start() call on a stopped bot whose initialization succeeds loads
\* the pool metadata, then sends "Bot Started", then marks the bot running
\* with a cron task armed, then runs one iteration to completion, and only
\* then returns; the call does not mark the bot running before its
\* initialization and notification are done.  (NoDone: the step is a step of
\* the call, not the hand-over of a finished call.)
C19_StartSequence ==
    /\ [][\A t \in Tasks :
             (NoDone /\ task[t].pc = "idle" /\ task'[t].pc = "s_init")
                 => (~isRunning /\ UNCHANGED <<botVars, poolInfoPrice>>
                     /\ task'[t].note = "none")]_vars
    /\ [][\A t \in Tasks :
             (NoDone /\ task[t].pc = "s_init" /\ task'[t].pc = "s_notify")
                 => (poolInfoPrice' = chainPrice /\ task'[t].note = "Bot Started"
                     /\ UNCHANGED botVars)]_vars
    /\ [][\A t \in Tasks :
             (NoDone /\ task[t].pc = "s_notify" /\ task'[t].pc # "s_notify")
                 => (isRunning' /\ cronJob' /\ timers' = timers + 1
                     /\ task'[t].pc = "it_price" /\ task'[t].ran = 0
                     /\ task'[t].start = "none")]_vars
    /\ [](\A t \in Tasks :
             (task[t].kind = "start" /\ task[t].note = "Bot Started")
                 => /\ task[t].start = "returned" <=> task[t].pc = "done"
                    /\ task[t].pc = "done" => (task[t].ran >= 1 /\ task[t].iter = "returned"))

C19_Witness ==
    \E t \in Tasks :
        /\ task[t].pc = "done" /\ task[t].kind = "start" /\ task[t].note = "Bot Started"
        /\ task[t].ran = 3 /\ task[t].failedAt = 0 /\ task[t].iter = "returned"
        /\ task[t].start = "returned" /\ isRunning /\ timers = 1

\* C20: redundant control calls are no-ops: start() on a running bot sends no
\* "Bot Started" and arms no cron task, stop() on a stopped bot sends no
\* "Bot Stopped"; neither changes any state.
C20_RedundantCallsNoOp ==
    [][\A t \in Tasks :
          /\ (task[t].pc = "idle" /\ task'[t].kind = "start" /\ isRunning)
                => /\ task'[t].pc = "done" /\ task'[t].note = "none"
                   /\ task'[t].errs = 0 /\ task'[t].ran = 0
                   /\ UNCHANGED <<botVars, poolInfoPrice, lastCheckedPrice, chainVars>>
          /\ (task[t].pc = "idle" /\ task'[t].kind = "stop" /\ ~isRunning)
                => /\ task'[t].pc = "done" /\ task'[t].note = "none"
                   /\ task'[t].errs = 0
                   /\ UNCHANGED <<botVars, poolInfoPrice, lastCheckedPrice, chainVars>>]_vars

C20_Witness ==
    \E t \in Tasks :
        /\ task[t].pc = "done" /\ task[t].kind = "start" /\ task[t].note = "none"
        /\ ~task[t].initFailed /\ task[t].ran = 0 /\ task[t].start = "returned"
        /\ isRunning /\ timers = 1

\* C21: stop() on a running bot disarms the timer, makes isActive() false and
\* sends one "Bot Stopped"; once the bot is stopped no timer tick starts an
\* iteration until a later start() has made it running again.
C21_StopSilencesTimer ==
    /\ [][\A t \in Tasks :
             (task[t].pc = "idle" /\ task'[t].kind = "stop" /\ isRunning /\ cronJob)
                 => (~isRunning' /\ timers' = timers - 1 /\ task'[t].note = "Bot Stopped")]_vars
    /\ [][\A t \in Tasks :
             (task[t].pc = "idle" /\ task'[t].kind = "tick") => isRunning]_vars

\* C22: stop() does not cancel an iteration in flight: it leaves every call in
\* progress as it is, and every remaining step of an iteration, the settle
\* delay and the transactions after it included, can be taken whether or not
\* the bot is still running.
C22_StopLeavesIteration ==
    /\ [][\A t \in Tasks :
             (task[t].pc = "idle" /\ task'[t].kind = "stop")
                 => (\A u \in Tasks : u # t => task'[u] = task[u])]_vars
    /\ [](\A t \in Tasks :
             (NoDone /\ InIteration(task[t]))
                 => ENABLED (\/ SinkAnswers(t, sinkUp)
                             \/ \E ok \in BOOLEAN : RbFetch(t, ok)
                             \/ \E ok \in BOOLEAN : CheckPrice(t, ok)
                             \/ \E ok \in BOOLEAN : CheckPositions(t, ok)
                             \/ \E ok \in BOOLEAN, sol \in SolValues : CheckSolBalance(t, ok, sol)
                             \/ \E ok \in BOOLEAN, w \in LoopWallets :
                                   CheckTokenBalances(t, ok, w[1], w[2], w[3])
                             \/ LowSent(t, sinkUp)
                             \/ \E ok \in BOOLEAN : RbPositions(t, ok)
                             \/ \E ok \in BOOLEAN, ab \in LoopBalances :
                                   CoTokens(t, ok, ab[1], ab[2])
                             \/ \E ok \in BOOLEAN : CoPositions(t, ok)
                             \/ \E ok \in BOOLEAN : CoPool(t, ok)
                             \/ \E built \in BOOLEAN : CoBuild(t, built)
                             \/ \E ok \in BOOLEAN : CoHash(t, ok)
                             \/ \E ok \in BOOLEAN : CoTx(t, ok)
                             \/ \E ok \in BOOLEAN : WdPositions(t, ok)
                             \/ \E built \in BOOLEAN : WdBuild(t, built)
                             \/ \E ok \in BOOLEAN : WdHash(t, ok)
                             \/ \E ok \in BOOLEAN : WdTx(t, ok)
                             \/ Settle(t)))
    /\ [][\A t \in Tasks :
             (NoDone /\ task[t].pc = "settle" /\ task'[t].pc # "settle")
                 => task'[t].pc = "co_tokens"]_vars

C22_Witness ==
    \E t \in Tasks :
        /\ ~isRunning /\ timers = 0
        /\ task[t].pc = "co_tx" /\ task[t].kind = "tick"
        /\ task[t].ev = <<"close", "closed", "settle", "open">>

\* C23: every checkWalletBalances call that reads a native balance below the
\* configured minimum sends exactly one "Low SOL Balance" notification, and a
\* call that reads a balance at or above the minimum sends none.
C23_LowBalanceNotified ==
    \A t \in Tasks :
        (task[t].pc = "done" /\ task[t].ran = 3 /\ task[t].sol # NotRead)
            => task[t].low = (IF task[t].sol < minSolBalance THEN 1 ELSE 0)

\* C24: a failure of the Notification Sink is never fatal.  Every call that
\* awaits a notification it has sent ("Bot Started", "Bot Stopped", "Low SOL
\* Balance", a position update, an error notification) goes on to the same
\* task and the same bot state whether the sink takes the message or rejects
\* it, and no operation ends with an exception that came out of
\* sendNotification.
C24_SinkFailureNotFatal ==
    /\ [](\A t \in Tasks : ~task[t].escaped)
    /\ [][/\ SinkAnswers(1, TRUE) <=> SinkAnswers(1, FALSE)
          /\ StartNotified(1, TRUE) <=> StartNotified(1, FALSE)
          /\ LowSent(1, TRUE) <=> LowSent(1, FALSE)]_vars

\* A rebalance that opened a position ended while the sink was down, after an
\* iteration whose position update could not be delivered
C24_Witness ==
    /\ ~sinkUp
    /\ task[1].pc = "done"
    /\ task[1].kind = "tick"
    /\ task[1].iter = "returned"
    /\ task[1].rb = "true"
    /\ Len(task[1].ev) > 0
    /\ task[1].ev[Len(task[1].ev)] = "opened"

\* C25: within one iteration the price that checkPositions classifies the
\* positions with is the currentPrice of that iteration's price sample,
\* whatever else runs between the two steps.
C25_SamePriceInIteration ==
    [][\A t \in Tasks :
          (NoDone /\ task[t].pc = "it_positions" /\ task'[t].pc = "it_balances")
             => task[t].cur = PoolPrice]_vars

\* The number of close transactions a call has submitted
RECURSIVE Closes(_)
Closes(ev) ==
    IF ev = << >> THEN 0
    ELSE (IF Head(ev) = "close" THEN 1 ELSE 0) + Closes(Tail(ev))

\* C26: withdrawOutOfRangePositions closes only positions that its own
\* listing classified out of range (a position in range at the price of the
\* listing stays open), submits a close transaction only when the previous
\* one has completed, and submits none after its first failed withdrawal.
C26_WithdrawOneAtATime ==
    /\ [](task[1].pc \in {"wd_build", "wd_hash", "wd_tx"} =>
            \A i \in 1..Len(task[1].queue) :
               \E p \in chainPositions :
                  p.id = task[1].queue[i] /\ ~inRange(p, poolInfoPrice))
    /\ [][(task[1].pc = "wd_tx" /\ chainPositions' # chainPositions) =>
             \E p \in chainPositions :
                /\ chainPositions' = chainPositions \ {p}
                /\ p.id = Head(task[1].queue)
                /\ ~inRange(p, poolInfoPrice)]_vars
    /\ [](\A i \in 1..Len(task[1].ev) :
            task[1].ev[i] = "close" =>
               /\ i < Len(task[1].ev) => task[1].ev[i + 1] \in {"closed", "close_failed"}
               /\ \A j \in 1..(i - 1) : task[1].ev[j] # "close_failed")
    /\ [][(NoDone /\ task[1].wdFailed) => Closes(task'[1].ev) = Closes(task[1].ev)]_vars

\* Two positions were out of range: the first was closed, the close of the
\* second failed, and the call ended there with the second still open
C26_Witness ==
    /\ task[1].pc = "done"
    /\ task[1].wdFailed
    /\ task[1].ev = <<"close", "closed", "close", "close_failed">>
    /\ Cardinality(chainPositions) = 1

\* C27: a start() whose pool load fails aborts startup.  When it ends the bot
\* is stopped, no cron task is armed, "Bot Started" was not sent and no step
\* of an iteration ran; the failing step itself changes none of the bot's
\* flags, and once the call has been handed back start() can begin again.
C27_FailedStartLeavesStopped ==
    /\ []((task[1].pc = "done" /\ task[1].kind = "start" /\ task[1].initFailed) =>
            /\ ~isRunning
            /\ ~cronJob
            /\ timers = 0
            /\ task[1].note = "none"
            /\ task[1].ran = 0
            /\ task[1].iter = "none"
            /\ task[1].ev = << >>)
    /\ [][(NoDone /\ task[1].kind = "start" /\ task[1].pc \in {"s_init", "sink"}
              /\ (task'[1].pc = "sink" \/ task'[1].initFailed)) => UNCHANGED botVars]_vars
    /\ [][(task[1].pc = "done" /\ task[1].initFailed) =>
             (task'[1].pc = "idle" /\ ~isRunning' /\ timers' = 0)]_vars
    /\ []((task[1].pc = "idle" /\ ~isRunning /\ timers = 0) =>
            ENABLED (StartCall(1) /\ task'[1].pc = "s_init"))

\* A start() of a bot that had already run and been stopped failed at its pool load
C27_Witness ==
    /\ task[1].pc = "done"
    /\ task[1].kind = "start"
    /\ task[1].initFailed
    /\ task[1].errs = 2
    /\ lastCheckedPrice # Null
    /\ ~isRunning

\* C28: a status query made while the bot is running does not change what the
\* next iteration does: in particular the checkPrice of a status query leaves
\* PoolMonitor.lastCheckedPrice as the last iteration stored it.
C28_StatusLeavesLastPrice ==
    [][(NoDone /\ task[1].kind = "status") => lastCheckedPrice' = lastCheckedPrice]_vars

\* C29: at most one cron task is armed at any time, also when start() calls
\* overlap; "Bot Started" is sent at most once per transition from stopped to
\* running (no two start() calls are past it at once); and while the bot is
\* not running and no start() is in progress, no cron task is armed.
C29_TimerUniqueness ==
    /\ timers <= 1
    /\ Cardinality({t \in Tasks : task[t].kind = "start" /\ task[t].note = "Bot Started"
                                      /\ task[t].pc = "s_notify"}) <= 1
    /\ (~isRunning /\ StartsInProgress = 0) => timers = 0

\* C30: when rebalanceIfNeeded lists at least one position and all of them in
\* range, it ends at that step, leaves the chain as it is, submits no
\* transaction and returns false, also when the iteration called it because
\* of a significant price change.
C30_InRangeUntouched ==
    /\ [](\A t \in Tasks :
            (task[t].rbCnt > 0 /\ task[t].rbOor = 0) =>
               /\ task[t].pc = "done"
               /\ task[t].rb = "false"
               /\ task[t].ev = << >>
               /\ task[t].errs = 0)
    /\ [][\A t \in Tasks :
             (NoDone /\ task[t].pc = "rb_positions" /\ task'[t].rbCnt > 0 /\ task'[t].rbOor = 0)
                => (chainPositions' = chainPositions /\ nextId' = nextId)]_vars

\* An iteration rebalanced on a significant price change alone (it had listed
\* its positions as present and in range) and the rebalance did nothing
C30_Witness ==
    /\ task[1].pc = "done"
    /\ task[1].kind = "tick"
    /\ task[1].ran = 3
    /\ task[1].rbCnt > 0
    /\ task[1].rbOor = 0
    /\ task[1].rb = "false"
    /\ task[1].iter = "returned"
    /\ chainPositions # {}

\* C32: one failure, one error notification.  A call that ended after a
\* failed open-position transaction, after a failed close-position
\* transaction, or after a failed pool load at startup (each the only failure
\* of that call) has sent exactly one error notification.
C32_OneNotificationPerFailure ==
    \A t \in Tasks :
       task[t].pc = "done" =>
          /\ (Len(task[t].ev) > 0 /\ task[t].ev[Len(task[t].ev)] = "open_failed")
                => task[t].errs = 1
          /\ (Len(task[t].ev) > 0 /\ task[t].ev[Len(task[t].ev)] = "close_failed")
                => task[t].errs = 1
          /\ task[t].initFailed => task[t].errs = 1

\* C31: with a healthy Gateway, a funded wallet, a bot that stays running and
\* a pool price that stops moving, the pool ends up with exactly one position,
\* in range at the pool's price, and from then on no position is opened or
\* closed.
C31_ConvergesAndQuiesces ==
    /\ <>[](/\ Cardinality(chainPositions) = 1
            /\ \A p \in chainPositions : inRange(p, chainPrice))
    /\ <>[][chainPositions' = chainPositions]_vars

====
